---- MODULE Spec2Model ----
(***************************************************************************)
(* A model of go-xrr-gamma's animation loop (package animate: Animate,     *)
(* animate, the CancelFunc closure) together with the parts of package     *)
(* gamma it drives (Session.SetGamma, Session.GetLookupTable,              *)
(* LookupTable.Equals / IsZero / XferFn).                                  *)
(*                                                                         *)
(* Time is kept relative (ages and a timer countdown) in milliseconds and  *)
(* advances in steps of TickMs.  A transfer function is represented by its *)
(* values at the grid points idx/size that SetGamma evaluates, in units of *)
(* 1/65535.                                                                *)
(***************************************************************************)
EXTENDS Integers, Sequences, FiniteSets, TLC

\* ------------------------------------------------------------------ bounds
\* crtcGamma.size: the number of samples of one lookup table
LutSize == 2
\* milliseconds that pass in one Tick step
TickMs == 11
\* the longest sleepFor (ms) the driver function suggests
MaxSleep == 44
\* goroutines that send on the EventChan
NumSenders == 2
\* goroutines that invoke the CancelFunc
NumCallers == 2

\* calls of the alert driver in one run
MaxTicks == 3
\* effects in the alert driver's list at a time
MaxEffects == 2
\* effects in the list at a time when the driver runs under Animate
MaxLiveEffects == 1
\* milliseconds that pass in one Pass step
PassMs == 125
\* the reading (ms) at which the clock since the anchor stops counting
MaxNow == 750
\* the inputs of a transfer function are the fractions k / InSteps
InSteps == 4
\* goroutines that call Client.Close
NumClosers == 3
\* Close calls of one goroutine
MaxCloseCalls == 2

\* ------------------------------------------------------- program constants
\* the largest C.ushort sample; SetGamma scales by 65535.0
MaxUshort == 65535
\* o.updateInterval: time.Second / 30, in whole milliseconds
UpdateInterval == 33

\* gamma.Channel: Red, Green, Blue
Channels == 0 .. 2

Senders == 1 .. NumSenders
Callers == 1 .. NumCallers
\* the opaque values sent on the EventChan: every sender sends its own
EventOf(s) == s
\* "no event": the nil interface value
NilEvent == 0
\* the values of the loop's err variable
NoErr == "nil"
SetupFailure == "SetupFailure"
ReadFailure == "ReadFailure"
ForeignCrtcUpdate == "ForeignCrtcUpdate"
\* a run-time panic ends the whole process
NoPanic == "none"
NilFuncPanic == "nil function call"
ClosePanic == "close of closed channel"

Min(a, b) == IF a < b THEN a ELSE b
Max(a, b) == IF a > b THEN a ELSE b

\* ------------------------------------------------------------ package gamma
\* A nil XferFn (the zero value of the loop's baseFn / curFn variables).
NilFn == [ch \in Channels |-> <<>>]

\* f(ch, in) = in, i.e. gamma.PowerFn(1), at the grid points idx/size
IdentityFn == [ch \in Channels |-> [i \in 1 .. LutSize |-> ((i - 1) * MaxUshort) \div LutSize]]

\* the bilevel demo's function: 0 below one half, 1 from one half on
BilevelFn == [ch \in Channels |-> [i \in 1 .. LutSize |-> IF 2 * (i - 1) < LutSize THEN 0 ELSE MaxUshort]]

\* fn.Mul(gamma.DimFn(0.5)): every output halved
DimFn(fn) == [ch \in Channels |-> [i \in 1 .. Len(fn[ch]) |-> fn[ch][i] \div 2]]

\* The zero LookupTable: every channel's slice is nil.
ZeroLut == [ch \in Channels |-> <<>>]

\* LookupTable.IsZero: t[0] == nil
IsZero(lt) == lt[0] = <<>>

\* a variant whose innermost loop stops one sample early
Equals_SkipLast(a, b) ==
    \A ch \in Channels :
        /\ Len(a[ch]) = Len(b[ch])
        /\ \A crtc \in 1 .. Len(a[ch]) :
            /\ Len(a[ch][crtc]) = Len(b[ch][crtc])
            /\ \A idx \in 1 .. Len(a[ch][crtc]) - 1 : a[ch][crtc][idx] = b[ch][crtc][idx]

\* LookupTable.Equals: same topology and same samples, channel by channel
Equals(a, b) ==
    \A ch \in Channels :
        /\ Len(a[ch]) = Len(b[ch])
        /\ \A crtc \in 1 .. Len(a[ch]) :
            /\ Len(a[ch][crtc]) = Len(b[ch][crtc])
            /\ \A idx \in 1 .. Len(a[ch][crtc]) : a[ch][crtc][idx] = b[ch][crtc][idx]

RECURSIVE SumSamples(_, _, _)
SumSamples(t, crtc, idx) ==
    IF crtc = 0 THEN 0 ELSE t[crtc][idx] + SumSamples(t, crtc - 1, idx)

\* LookupTable.XferFn at the grid points.  The test "int(base) < len(t)-1"
\* compares with the number of CRTCs, which is 1, so the interpolating
\* branch is never taken and the value is lut[int(in * len(lut))].  For the
\* table sizes used here (as for every power of two) float64 idx/size*size
\* is idx exactly, and x/65535.0*65535.0 truncates back to x for every
\* ushort x; the result is the mean over the table's CRTCs.
LutXferFn(lt) ==
    [ch \in Channels |->
        [i \in 1 .. Len(lt[ch][1]) |-> SumSamples(lt[ch], Len(lt[ch]), i) \div Len(lt[ch])]]

\* Session.SetGamma followed by what GetLookupTable reads back: the primary
\* CRTC's table, gv[idx] = C.ushort(fn(ch, idx/size) * 65535.0)
SetGamma(fn) == [ch \in Channels |-> << [i \in 1 .. LutSize |-> fn[ch][i]] >>]

\* the sample values of the tables compared and converted below
Samples == {0, MaxUshort}

\* What GetLookupTable can return, and the zero value: one controller (the
\* primary CRTC) per channel, every channel with the CRTC's size.
Tables ==
    {ZeroLut} \cup
    UNION {[Channels -> {<<smp>> : smp \in [1 .. n -> Samples]}] : n \in 1 .. LutSize}

\* lut[int(base)] and lut[int(base)+1] of one controller for the input
\* num / InSteps, with base, frac = math.Modf(in * len(lut)); panic stands
\* for Go's "index out of range"; the value is in units of 1 / InSteps
XferTerm(lut, crtcs, num) ==
    LET prod == num * Len(lut)
        base == prod \div InSteps
        frac == prod % InSteps
    IN  IF base < crtcs - 1
        THEN IF base + 2 > Len(lut)
             THEN [panic |-> TRUE, val |-> 0]
             ELSE [panic |-> FALSE,
                   val |-> lut[base + 1] * (InSteps - frac) + lut[base + 2] * frac]
        ELSE IF base + 1 > Len(lut)
             THEN [panic |-> TRUE, val |-> 0]
             ELSE [panic |-> FALSE, val |-> lut[base + 1] * InSteps]

\* the loop over the controllers: acc after the controllers 1 .. crtc
RECURSIVE XferAcc(_, _, _)
XferAcc(tc, crtc, num) ==
    IF crtc = 0 THEN [panic |-> FALSE, val |-> 0]
    ELSE LET r == XferAcc(tc, crtc - 1, num)
             x == XferTerm(tc[crtc], Len(tc), num)
         IN  IF r.panic \/ x.panic THEN [panic |-> TRUE, val |-> 0]
             ELSE [panic |-> FALSE, val |-> r.val + x.val]

\* lt.XferFn()(ch, num / InSteps): "panic", "NaN" (0/0 for a table without
\* controllers) or "value", val being out * 65535 * InSteps
XferAt(lt, ch, num) ==
    IF Len(lt[ch]) = 0 THEN [kind |-> "NaN", val |-> 0]
    ELSE LET r == XferAcc(lt[ch], Len(lt[ch]), num)
         IN  IF r.panic THEN [kind |-> "panic", val |-> 0]
             ELSE [kind |-> "value", val |-> r.val \div Len(lt[ch])]

\* no LookupTable method has been called
NoCall == [op |-> "none", a |-> ZeroLut, b |-> ZeroLut, ch |-> 0, in |-> 0,
           eq |-> FALSE, out |-> [kind |-> "none", val |-> 0]]

\* the goroutines that call Client.Close
Closers == 1 .. NumClosers

\* the tables other programs of the repository put on the device
\* (the reset and bilevel commands)
ForeignTables == {SetGamma(IdentityFn), SetGamma(BilevelFn)}

\* ------------------------------------------------------------ package alert
\* Durations are in milliseconds.  The stage strength is kept as the
\* numerator of a fraction over EnterExitDuration (strength 1 is 250), and
\* the effect strength in units of 1/EffScale.
\* Cmd
NoCmd == "noCmd"
Warble == "Warble"
Strobe == "Strobe"
ExitCmd == "Exit"
Cmds == {NoCmd, Warble, Strobe, ExitCmd}

\* const enterExitDuration = 250 * time.Millisecond
EnterExitDuration == 250
\* warble: const period = 125 * time.Millisecond, const cycles = 5
WarblePeriod == 125
WarbleCycles == 5
WarbleDuration == WarblePeriod * WarbleCycles
\* strobe: const duration = 1250 * time.Millisecond
StrobeDuration == 1250
\* the static stage's sleepFor = 2 * time.Second
IdleSleep == 2000
\* the resolution at which the float64 effect strength is kept
EffScale == 1000

\* pow = math.Cos(2*math.Pi*pos)/2 + 0.5 in units of 1/EffScale, with pos
\* (the fraction of the period) taken at fifths of the period
WarblePow(since) ==
    LET k == ((since % WarblePeriod) * 5) \div WarblePeriod
    IN  (<<1000, 655, 95, 95, 655>>[k + 1] * EffScale) \div 1000

\* warble: "since > duration"
WarbleDone(since) == since > WarbleDuration

\* warble(since, in): weight = 1/12
WarbleApply(since, in) ==
    IF WarbleDone(since)
    THEN [out |-> in, done |-> TRUE]
    ELSE [out |-> EffScale - ((EffScale - in) * (11 * EffScale + WarblePow(since)))
                                  \div (12 * EffScale),
          done |-> FALSE]

\* strobe(since, in)
StrobeApply(since, in) ==
    IF since > StrobeDuration
    THEN [out |-> in, done |-> TRUE]
    ELSE [out |-> EffScale - ((EffScale - in) * (StrobeDuration + since))
                                  \div (2 * StrobeDuration),
          done |-> FALSE]

\* effect.apply
EffectApply(e, since, in) ==
    IF e.apply = "warble" THEN WarbleApply(since, in) ELSE StrobeApply(since, in)

\* a variant that only shortens the list and forgets the swap
RemoveBySwap_DropLast(effs, idx) ==
    [i \in 1 .. Len(effs) - 1 |-> effs[i]]

\* effects[0 : len(effects)-1] after effects[idx] = effects[len(effects)-1]
\* (idx counts from 1 here)
RemoveBySwap(effs, idx) ==
    [i \in 1 .. Len(effs) - 1 |-> IF i = idx THEN effs[Len(effs)] ELSE effs[i]]

\* The loop over the effects: r carries the list, the index, the chained
\* strength, sleepFor and the effects applied so far (their start and kind).
RECURSIVE ApplyEffects(_, _)
ApplyEffects(r, now) ==
    IF r.idx > Len(r.effects) THEN r
    ELSE LET e == r.effects[r.idx]
             a == EffectApply(e, now - e.start, r.effectStrength)
         IN  IF a.done
             THEN ApplyEffects([r EXCEPT !.effects = RemoveBySwap(r.effects, r.idx),
                                         !.effectStrength = a.out,
                                         !.applied = Append(r.applied, e)], now)
             ELSE ApplyEffects([r EXCEPT !.idx = r.idx + 1,
                                         !.effectStrength = a.out,
                                         !.sleepFor = 0,
                                         !.applied = Append(r.applied, e)], now)

\* a variant of the test that ends the fade-out: strength 0 is enough
FadedOut_AtZero(str) == str <= 0

\* exit stage: "if strength < 0"
FadedOut(str) == str < 0

\* a variant in which the tick that turns entering into static also
\* suggests the idle sleep
EnterDoneSleep_Idle == IdleSleep

\* sleepFor of the tick on which entering turns into static
EnterDoneSleep == 0

\* a variant of setStage that leaves the stage timer running
SetStage_KeepTimer(g, s, now) ==
    [stage |-> s, stageStart |-> g.stageStart, sinceStage |-> now - g.stageStart]

\* setStage: "stage = s; stageStart = t; sinceStage = 0"
SetStage(g, s, now) ==
    [stage |-> s, stageStart |-> now, sinceStage |-> 0]

\* a variant in which entering ends only after the full duration has passed
EnterDone_Past(since) == since > EnterExitDuration

\* entering: "if strength >= 1", with strength = sinceStage / enterExitDuration
EnterDone(since) == since >= EnterExitDuration

\* "switch stage": the stage strength, sleepFor and exitFlag of the tick
StageTick(g, now) ==
    IF g.stage = "static"
    THEN [stage |-> g.stage, stageStart |-> g.stageStart, sinceStage |-> g.sinceStage,
          strength |-> EnterExitDuration, sleepFor |-> IdleSleep, exitFlag |-> FALSE]
    ELSE IF g.stage = "enter"
    THEN IF EnterDone(g.sinceStage)
         THEN [stage |-> SetStage(g, "static", now).stage,
               stageStart |-> SetStage(g, "static", now).stageStart,
               sinceStage |-> SetStage(g, "static", now).sinceStage,
               strength |-> EnterExitDuration, sleepFor |-> EnterDoneSleep, exitFlag |-> FALSE]
         ELSE [stage |-> g.stage, stageStart |-> g.stageStart, sinceStage |-> g.sinceStage,
               strength |-> g.sinceStage, sleepFor |-> 0, exitFlag |-> FALSE]
    ELSE IF FadedOut(EnterExitDuration - g.sinceStage)
         THEN [stage |-> g.stage, stageStart |-> g.stageStart, sinceStage |-> g.sinceStage,
               strength |-> 0, sleepFor |-> 0, exitFlag |-> TRUE]
         ELSE [stage |-> g.stage, stageStart |-> g.stageStart, sinceStage |-> g.sinceStage,
               strength |-> EnterExitDuration - g.sinceStage, sleepFor |-> 0, exitFlag |-> FALSE]

\* a variant in which every command is taken for Exit
IsExitCmd_Any(c) == c # NoCmd

\* "switch cmd": case Exit
IsExitCmd(c) == c = ExitCmd

\* a variant in which Exit restarts the fade-out that is under way
KeptStage_Restart(st, now) ==
    [stage |-> st.stage, stageStart |-> now, sinceStage |-> 0]

\* "switch stage" under case Exit has no case for exiting: the stage and
\* its timer stay, with sinceStage = t - stageStart
KeptStage(st, now) ==
    [stage |-> st.stage, stageStart |-> st.stageStart, sinceStage |-> now - st.stageStart]

\* a variant in which Exit restarts the stage timer in entering too
AfterExitCmd_Restart(st, now) ==
    IF st.stage \in {"static", "enter"}
    THEN [stage |-> "exit", stageStart |-> now, sinceStage |-> 0]
    ELSE [stage |-> st.stage, stageStart |-> st.stageStart, sinceStage |-> now - st.stageStart]

\* the stage and its timer after "switch cmd": case Exit
AfterExitCmd(st, now) ==
    IF st.stage = "static"
    THEN SetStage(st, "exit", now)
    ELSE IF st.stage = "enter"
    THEN [stage |-> "exit",
          stageStart |-> now - (EnterExitDuration - (now - st.stageStart)),
          sinceStage |-> EnterExitDuration - (now - st.stageStart)]
    ELSE KeptStage(st, now)

\* One call of the closure Xft returns, on the captured state st at elapsed
\* time now with command c.
XftTick(st, now, c) ==
    LET effs == IF c = Warble THEN Append(st.effects, [start |-> now, apply |-> "warble"])
                ELSE IF c = Strobe THEN Append(st.effects, [start |-> now, apply |-> "strobe"])
                ELSE st.effects
        g == IF IsExitCmd(c) THEN AfterExitCmd(st, now)
             ELSE [stage |-> st.stage, stageStart |-> st.stageStart,
                   sinceStage |-> now - st.stageStart]
        h == StageTick(g, now)
        r == ApplyEffects([effects |-> effs, idx |-> 1, effectStrength |-> 0,
                           sleepFor |-> h.sleepFor, applied |-> <<>>], now)
    IN  [stage |-> h.stage, stageStart |-> h.stageStart, sinceStage |-> h.sinceStage,
         strength |-> h.strength, exitFlag |-> h.exitFlag,
         effects |-> r.effects, effectStrength |-> r.effectStrength,
         sleepFor |-> r.sleepFor, applied |-> r.applied]

\* ------------------------------------------------------------------- state
VARIABLES
    \* options (Animate)
    exitOnForeignUpdate, restoreOnExit, optRestoreOnExit,
    \* animate's locals
    pc, sess, exit, err, oldLut, newLut, baseFn, curFn, sleepFor, event,
    timer, lastUpdateAge,
    \* the device and the channels
    device, called, cancelCloses, cpc, spc, errSent, errCloses, recv,
    panic,
    \* observers
    inflight, foreignSeen, lastWrite, nRestores, xftBase, wrote,
    writeAge, paced, cancelCalls, suggested

\* package alert: the state captured by the closure Xft returns, the
\* arguments and results of its last call, and the number of calls
VARIABLES
    stage, stageStart, effects, t, cmd, sinceStage, strength,
    effectStrength, alertSleepFor, exitFlag, applied, ticks,
    \* animate: time.Now().Sub(anchor)
    now

\* package gamma: the last call of a LookupTable method with its arguments
\* and result; the Client (open flag, mutex holder, XCloseDisplay calls) and
\* the goroutines calling its Close
VARIABLES
    gop, client, closer

optVars == <<exitOnForeignUpdate, restoreOnExit, optRestoreOnExit>>
loopVars == <<pc, sess, exit, err, oldLut, newLut, baseFn, curFn, sleepFor, event>>
timeVars == <<timer, lastUpdateAge, writeAge>>
cancelVars == <<called, cancelCloses, cpc, cancelCalls>>
sendVars == <<spc>>
errVars == <<errSent, errCloses, recv>>
obsVars == <<inflight, foreignSeen, lastWrite, nRestores, xftBase, wrote, paced, suggested>>
alertVars == <<stage, stageStart, effects, t, cmd, sinceStage, strength,
               effectStrength, alertSleepFor, exitFlag, applied, ticks, now>>
gammaVars == <<gop, client, closer>>
vars == <<optVars, loopVars, timeVars, cancelVars, sendVars, errVars, obsVars, device, panic, alertVars,
          gammaVars>>

\* the timer: stopped (or drained), or armed with `left` ms to go; it has
\* fired (a value waits in timer.C) when armed with nothing left
TimerStopped == [armed |-> FALSE, left |-> 0]
TimerArmed(d) == [armed |-> TRUE, left |-> d]

\* what a driver function may answer: a curve, a suggested sleep, an exit flag
DriverFns(base) == {base, DimFn(base)}
SleepChoices == {0, MaxSleep}

\* the age that stands for "longer ago than the update interval", as of
\* the zero lastUpdate of the first iteration
AgeCap == UpdateInterval + TickMs

Init ==
    /\ exitOnForeignUpdate \in BOOLEAN
    /\ restoreOnExit \in BOOLEAN
    /\ optRestoreOnExit = restoreOnExit
    /\ pc = "setup"
    /\ sess = "none"
    /\ exit = FALSE
    /\ err = NoErr
    /\ oldLut = ZeroLut
    /\ newLut = ZeroLut
    /\ baseFn = NilFn
    /\ curFn = NilFn
    /\ sleepFor = 0
    /\ event = NilEvent
    /\ timer = TimerStopped
    /\ lastUpdateAge = AgeCap
    /\ device = SetGamma(IdentityFn)
    /\ called = FALSE
    /\ cancelCloses = 0
    /\ cpc = [c \in Callers |-> "idle"]
    /\ spc = [s \in Senders |-> "idle"]
    /\ errSent = <<>>
    /\ errCloses = 0
    /\ recv = "waiting"
    /\ panic = NoPanic
    /\ inflight = <<>>
    /\ foreignSeen = FALSE
    /\ lastWrite = [kind |-> "none", fn |-> NilFn]
    /\ nRestores = 0
    /\ xftBase = NilFn
    /\ wrote = FALSE
    /\ writeAge = UpdateInterval
    /\ paced = TRUE
    /\ cancelCalls = 0
    /\ suggested = 0
    /\ stage = "enter"
    /\ stageStart = 0
    /\ effects = <<>>
    /\ t = 0
    /\ cmd = NoCmd
    /\ sinceStage = 0
    /\ strength = 0
    /\ effectStrength = 0
    /\ alertSleepFor = 0
    /\ exitFlag = FALSE
    /\ applied = <<>>
    /\ ticks = 0
    /\ now = 0
    /\ gop = NoCall
    /\ client = [open |-> TRUE, mutex |-> 0, closes |-> 0]
    /\ closer = [c \in Closers |-> [pc |-> "idle", calls |-> 0, synced |-> FALSE]]

\* ------------------------------------------------------------ animate (loop)
\* a variant that leaves through the end of the loop ("break")
SetupFailTarget_Break == "restore"

\* where a failed NewSession goes: "goto bail"
SetupFailTarget == "bail"

\* s, err = o.cl.NewSession(); on failure "goto bail", before the deferred
\* s.Close() is registered
Setup ==
    /\ panic = NoPanic
    /\ pc = "setup"
    /\ \/ sess' = "open" /\ err' = err /\ pc' = "top"
       \/ sess' = "none" /\ err' = SetupFailure /\ pc' = SetupFailTarget
    /\ UNCHANGED <<gammaVars, alertVars, optVars, exit, oldLut, newLut, baseFn, curFn, sleepFor, event>>
    /\ UNCHANGED <<timeVars, cancelVars, sendVars, errVars, obsVars, device, panic>>

\* a faulty variant: the foreign update leaves o.restoreOnExit as it was
RestoreAfterForeign_Kept == restoreOnExit

\* what o.restoreOnExit becomes when a foreign update ends the loop
RestoreAfterForeign == FALSE

\* a faulty variant: the foreign update leaves the baseline as it was
RebasedFn_Kept(lut) == baseFn

\* the baseline after a foreign update under ExitOnForeignUpdate(false)
RebasedFn(lut) == LutXferFn(lut)

\* a variant in which the loop goes on after the driver returned exit
ExitBreaks_Never == FALSE

\* "if exit { break loop }"
ExitBreaks == exit

\* The head of an iteration: "if exit break", the snapshot read, and the
\* comparison with the snapshot kept by the previous iteration.
LoopTop ==
    /\ panic = NoPanic
    /\ pc = "top"
    /\ \/ /\ ExitBreaks
          /\ pc' = "restore"
          /\ UNCHANGED <<newLut, err, baseFn, restoreOnExit, foreignSeen>>
       \/ /\ ~ExitBreaks
          \* GetLookupTable fails
          /\ newLut' = ZeroLut
          /\ err' = ReadFailure
          /\ pc' = "restore"
          /\ UNCHANGED <<baseFn, restoreOnExit, foreignSeen>>
       \/ /\ ~ExitBreaks
          /\ newLut' = device
          /\ IF IsZero(oldLut)
             THEN /\ baseFn' = LutXferFn(newLut')
                  /\ pc' = "call"
                  /\ UNCHANGED <<err, restoreOnExit, foreignSeen>>
             ELSE IF ~Equals(newLut', oldLut)
             THEN /\ foreignSeen' = TRUE
                  /\ IF exitOnForeignUpdate
                     THEN /\ err' = ForeignCrtcUpdate
                          /\ restoreOnExit' = RestoreAfterForeign
                          /\ pc' = "restore"
                          /\ UNCHANGED baseFn
                     ELSE /\ baseFn' = RebasedFn(newLut')
                          /\ pc' = "call"
                          /\ UNCHANGED <<err, restoreOnExit>>
             ELSE /\ pc' = "call"
                  /\ UNCHANGED <<err, baseFn, restoreOnExit, foreignSeen>>
    /\ UNCHANGED <<gammaVars, alertVars, exitOnForeignUpdate, optRestoreOnExit, sess, exit, oldLut, curFn, sleepFor, event>>
    /\ UNCHANGED <<timeVars, cancelVars, sendVars, errVars, device, panic>>
    /\ UNCHANGED <<inflight, lastWrite, nRestores, xftBase, suggested, wrote, paced>>

\* curFn, sleepFor, exit = o.xft(time.Now().Sub(anchor), baseFn, event).
\* The driver function is the caller's: any curve, sleep and exit flag.
CallXftWith(sleeps) ==
    /\ panic = NoPanic
    /\ pc = "call"
    /\ \E fn \in DriverFns(baseFn), sl \in sleeps, ex \in BOOLEAN :
        /\ curFn' = fn
        /\ sleepFor' = sl
        /\ suggested' = sl
        /\ exit' = ex
        /\ paced' = (paced /\ sl = 0 /\ ~ex)
    /\ xftBase' = baseFn
    /\ inflight' = IF event = NilEvent \/ inflight = <<>> THEN inflight
                   ELSE IF Head(inflight) = event THEN Tail(inflight) ELSE inflight
    /\ pc' = "write"
    /\ UNCHANGED <<gammaVars, alertVars, optVars, sess, err, oldLut, newLut, baseFn, event>>
    /\ UNCHANGED <<timeVars, cancelVars, sendVars, errVars, device, panic>>
    /\ UNCHANGED <<foreignSeen, lastWrite, nRestores, wrote>>

\* the driver suggests no sleep or a long one
CallXft == CallXftWith(SleepChoices)

\* the driver may also return a negative sleepFor
CallXftAnySleep == CallXftWith(SleepChoices \cup {0 - TickMs})

\* s.SetGamma(curFn)
WriteGamma ==
    /\ panic = NoPanic
    /\ pc = "write"
    /\ device' = SetGamma(curFn)
    /\ lastWrite' = [kind |-> "xft", fn |-> curFn]
    /\ writeAge' = 0
    /\ wrote' = TRUE
    /\ pc' = "reread"
    /\ UNCHANGED <<gammaVars, alertVars, optVars, sess, exit, err, oldLut, newLut, baseFn, curFn, sleepFor, event>>
    /\ UNCHANGED <<timer, lastUpdateAge, cancelVars, sendVars, errVars, panic>>
    /\ UNCHANGED <<inflight, foreignSeen, nRestores, xftBase, suggested, paced>>

\* a variant without the "if sleepFor < 0" clamp
WaitFor_NoClamp(sleep, age) == Max(sleep, UpdateInterval - age)

\* extraTime = o.updateInterval - thisUpdate.Sub(lastUpdate), then
\* sleepFor raised to extraTime and to 0
WaitFor(sleep, age) == Max(Max(sleep, UpdateInterval - age), 0)

\* a faulty variant: the "event = nil" before the select is missing
ClearedEvent_Stale == event

\* the value of event right before the select
ClearedEvent == NilEvent

\* a variant that keeps the snapshot read at the head of the iteration
Retained_TopRead(dev) == newLut

\* the snapshot kept for the next iteration's comparison: the one re-read
\* after the write, "oldLut, err = s.GetLookupTable()"
Retained(dev) == dev

\* The re-read after the write, the pacing arithmetic, timer.Reset and
\* "event = nil".
Reread ==
    /\ panic = NoPanic
    /\ pc = "reread"
    /\ \/ /\ oldLut' = ZeroLut
          /\ err' = ReadFailure
          /\ pc' = "restore"
          /\ UNCHANGED <<sleepFor, event, timer, lastUpdateAge>>
       \/ /\ oldLut' = Retained(device)
          /\ sleepFor' = WaitFor(sleepFor, lastUpdateAge)
          /\ lastUpdateAge' = 0
          /\ timer' = TimerArmed(sleepFor')
          /\ event' = ClearedEvent
          /\ pc' = "select"
          /\ UNCHANGED err
    /\ UNCHANGED <<gammaVars, alertVars, optVars, sess, exit, newLut, baseFn, curFn>>
    /\ UNCHANGED <<writeAge, cancelVars, sendVars, errVars, obsVars, device, panic>>

\* select: case <-o.cancel
SelectCancel ==
    /\ panic = NoPanic
    /\ pc = "select"
    /\ cancelCloses > 0
    /\ pc' = "restore"
    /\ UNCHANGED <<gammaVars, alertVars, optVars, sess, exit, err, oldLut, newLut, baseFn, curFn, sleepFor, event>>
    /\ UNCHANGED <<timeVars, cancelVars, sendVars, errVars, obsVars, device, panic>>

\* a variant that also receives from o.event before the re-read
EventWaitPoints_Early == {"select", "reread"}

\* where the loop receives from o.event: in the select only
EventWaitPoints == {"select"}

\* select: case event = <-o.event, then the timer is stopped or drained
SelectEvent(s) ==
    /\ panic = NoPanic
    /\ pc \in EventWaitPoints
    /\ spc[s] = "sending"
    /\ event' = EventOf(s)
    /\ spc' = [spc EXCEPT ![s] = "idle"]
    /\ timer' = TimerStopped
    /\ inflight' = Append(inflight, EventOf(s))
    /\ paced' = FALSE
    /\ pc' = "top"
    /\ UNCHANGED <<gammaVars, alertVars, optVars, sess, exit, err, oldLut, newLut, baseFn, curFn, sleepFor>>
    /\ UNCHANGED <<lastUpdateAge, writeAge, cancelVars, errVars, device, panic>>
    /\ UNCHANGED <<foreignSeen, lastWrite, nRestores, xftBase, suggested, wrote>>

\* select: case <-timer.C
SelectTimer ==
    /\ panic = NoPanic
    /\ pc = "select"
    /\ timer.armed /\ timer.left = 0
    /\ timer' = TimerStopped
    /\ pc' = "top"
    /\ UNCHANGED <<gammaVars, alertVars, optVars, sess, exit, err, oldLut, newLut, baseFn, curFn, sleepFor, event>>
    /\ UNCHANGED <<lastUpdateAge, writeAge, cancelVars, sendVars, errVars, device, panic>>
    /\ UNCHANGED <<inflight, foreignSeen, lastWrite, nRestores, xftBase, suggested, wrote, paced>>

\* a faulty variant: the last driver output is written back
RestoreFn_Last == curFn

\* the curve written back when the loop has ended
RestoreFn == baseFn

\* if o.restoreOnExit { s.SetGamma(baseFn) }: SetGamma calls the function
\* for every sample, so a nil baseFn is a nil-function call (a panic)
Restore ==
    /\ panic = NoPanic
    /\ pc = "restore"
    /\ IF restoreOnExit
       THEN IF RestoreFn = NilFn
            THEN /\ panic' = NilFuncPanic
                 /\ UNCHANGED <<device, lastWrite, nRestores, pc>>
            ELSE /\ device' = SetGamma(RestoreFn)
                 /\ lastWrite' = [kind |-> "restore", fn |-> RestoreFn]
                 /\ nRestores' = Min(nRestores + 1, 2)
                 /\ pc' = "bail"
                 /\ UNCHANGED panic
       ELSE /\ pc' = "bail"
            /\ UNCHANGED <<device, lastWrite, nRestores, panic>>
    /\ UNCHANGED <<gammaVars, alertVars, optVars, sess, exit, err, oldLut, newLut, baseFn, curFn, sleepFor, event>>
    /\ UNCHANGED <<timeVars, cancelVars, sendVars, errVars>>
    /\ UNCHANGED <<inflight, foreignSeen, xftBase, suggested, wrote, paced>>

\* bail: if err != nil { o.err <- err }: an unbuffered send, which needs
\* the receiver
Bail ==
    /\ panic = NoPanic
    /\ pc = "bail"
    /\ IF err # NoErr
       THEN /\ recv = "waiting"
            /\ errSent' = Append(errSent, err)
            /\ recv' = "got"
       ELSE UNCHANGED <<errSent, recv>>
    /\ pc' = "close"
    /\ UNCHANGED <<gammaVars, alertVars, optVars, sess, exit, err, oldLut, newLut, baseFn, curFn, sleepFor, event>>
    /\ UNCHANGED <<timeVars, cancelVars, sendVars, errCloses, obsVars, device, panic>>

\* close(o.err)
CloseErr ==
    /\ panic = NoPanic
    /\ pc = "close"
    /\ errCloses' = errCloses + 1
    /\ pc' = IF sess = "open" THEN "defer" ELSE "done"
    /\ UNCHANGED <<gammaVars, alertVars, optVars, sess, exit, err, oldLut, newLut, baseFn, curFn, sleepFor, event>>
    /\ UNCHANGED <<timeVars, cancelVars, sendVars, errSent, recv, obsVars, device, panic>>

\* the deferred s.Close(), run when animate returns
DeferClose ==
    /\ panic = NoPanic
    /\ pc = "defer"
    /\ sess' = "closed"
    /\ pc' = "done"
    /\ UNCHANGED <<gammaVars, alertVars, optVars, exit, err, oldLut, newLut, baseFn, curFn, sleepFor, event>>
    /\ UNCHANGED <<timeVars, cancelVars, sendVars, errVars, obsVars, device, panic>>

\* ------------------------------------------------------- Animate: CancelFunc
\* "if !called": whether this invocation goes on to close(cancel)
CancelShouldClose == ~called

\* a faulty variant: called is never set
CalledAfterClose_Unset == FALSE

\* the value stored in called after close(cancel)
CalledAfterClose == TRUE

\* A caller enters the CancelFunc and reads called; when it is set the
\* invocation returns at once.
CancelEnter(c) ==
    /\ panic = NoPanic
    /\ cpc[c] = "idle"
    /\ IF CancelShouldClose
       THEN cpc' = [cpc EXCEPT ![c] = "close"] /\ UNCHANGED cancelCalls
       ELSE cancelCalls' = Min(cancelCalls + 1, 2) /\ UNCHANGED cpc
    /\ paced' = FALSE
    /\ UNCHANGED <<gammaVars, alertVars, optVars, loopVars, timeVars, called, cancelCloses, sendVars, errVars, device, panic>>
    /\ UNCHANGED <<inflight, foreignSeen, lastWrite, nRestores, xftBase, suggested, wrote>>

\* close(cancel); closing a closed channel panics
CancelClose(c) ==
    /\ panic = NoPanic
    /\ cpc[c] = "close"
    /\ cancelCloses' = Min(cancelCloses + 1, 2)
    /\ panic' = IF cancelCloses > 0 THEN ClosePanic ELSE panic
    /\ cpc' = [cpc EXCEPT ![c] = "mark"]
    /\ UNCHANGED <<gammaVars, alertVars, optVars, loopVars, timeVars, called, cancelCalls, sendVars, errVars, obsVars, device>>

\* called = true; return
CancelMark(c) ==
    /\ panic = NoPanic
    /\ cpc[c] = "mark"
    /\ called' = CalledAfterClose
    /\ cancelCalls' = Min(cancelCalls + 1, 2)
    /\ cpc' = [cpc EXCEPT ![c] = "idle"]
    /\ UNCHANGED <<gammaVars, alertVars, optVars, loopVars, timeVars, cancelCloses, sendVars, errVars, obsVars, device, panic>>

\* ------------------------------------------------------------ environment
\* a goroutine starts "eventChan <- v" and blocks until the loop receives
SendStart(s) ==
    /\ panic = NoPanic
    /\ spc[s] = "idle"
    /\ spc' = [spc EXCEPT ![s] = "sending"]
    /\ UNCHANGED <<gammaVars, alertVars, optVars, loopVars, timeVars, cancelVars, errVars, obsVars, device, panic>>

\* the receiver of the termination channel sees it closed
RecvClosed ==
    /\ panic = NoPanic
    /\ recv = "waiting"
    /\ errCloses > 0
    /\ recv' = "closed"
    /\ UNCHANGED <<gammaVars, alertVars, optVars, loopVars, timeVars, cancelVars, sendVars, errSent, errCloses, obsVars, device, panic>>

\* another program reprograms the CRTC while the session is in use
ForeignUpdate ==
    /\ panic = NoPanic
    /\ sess = "open"
    /\ \E tbl \in ForeignTables : tbl # device /\ device' = tbl
    /\ UNCHANGED <<gammaVars, alertVars, optVars, loopVars, timeVars, cancelVars, sendVars, errVars, obsVars, panic>>

\* d milliseconds pass: the timer runs down and the ages grow; the time
\* since lastUpdate is kept up to cap
ElapseTimes(d, cap) ==
    /\ timer' = IF timer.armed THEN TimerArmed(Max(timer.left - d, 0)) ELSE timer
    /\ lastUpdateAge' = Max(lastUpdateAge, Min(lastUpdateAge + d, cap))
    /\ writeAge' = Min(writeAge + d, UpdateInterval)

\* time passes and nothing else happens
Elapse(d, cap) ==
    /\ ElapseTimes(d, cap)
    /\ UNCHANGED <<gammaVars, alertVars, optVars, loopVars, cancelVars, sendVars, errVars, obsVars, device, panic>>

\* Where the loop spends time: waiting in the select, and in the device
\* write and re-read.
TimedPoints == {"select", "reread"}

\* TickMs milliseconds pass
Tick ==
    /\ panic = NoPanic
    /\ pc \in TimedPoints
    /\ Elapse(TickMs, AgeCap)

\* the loop waits in the select until the timer's time has passed
TimerFire ==
    /\ panic = NoPanic
    /\ pc = "select"
    /\ timer.armed /\ timer.left > 0
    /\ Elapse(timer.left, UpdateInterval)

\* The loop, a caller that cancels, other programs writing the device, and
\* the receiver of the termination channel.
Next ==
    \/ Setup
    \/ LoopTop
    \/ CallXft
    \/ WriteGamma
    \/ Reread
    \/ SelectCancel
    \/ SelectTimer
    \/ Restore
    \/ Bail
    \/ CloseErr
    \/ DeferClose
    \/ CancelEnter(1)
    \/ CancelClose(1)
    \/ CancelMark(1)
    \/ RecvClosed
    \/ ForeignUpdate
    \/ TimerFire

Spec == Init /\ [][Next]_vars

\* The loop and several goroutines that invoke the CancelFunc.
NextCancel ==
    \/ Setup
    \/ LoopTop
    \/ CallXft
    \/ WriteGamma
    \/ Reread
    \/ SelectCancel
    \/ SelectTimer
    \/ Restore
    \/ Bail
    \/ CloseErr
    \/ DeferClose
    \/ \E c \in Callers : CancelEnter(c)
    \/ \E c \in Callers : CancelClose(c)
    \/ \E c \in Callers : CancelMark(c)
    \/ TimerFire

SpecCancel == Init /\ [][NextCancel]_vars

\* The loop, goroutines that send events, a caller that cancels and other
\* programs writing the device.
NextEvents ==
    \/ Setup
    \/ LoopTop
    \/ CallXft
    \/ WriteGamma
    \/ Reread
    \/ SelectCancel
    \/ \E s \in Senders : SelectEvent(s)
    \/ SelectTimer
    \/ Restore
    \/ Bail
    \/ CloseErr
    \/ DeferClose
    \/ \E s \in Senders : SendStart(s)
    \/ CancelEnter(1)
    \/ CancelClose(1)
    \/ CancelMark(1)
    \/ ForeignUpdate
    \/ TimerFire

SpecEvents == Init /\ [][NextEvents]_vars

\* The loop under the clock: time passes in ticks.
NextPace ==
    \/ Setup
    \/ LoopTop
    \/ CallXftAnySleep
    \/ WriteGamma
    \/ Reread
    \/ SelectTimer
    \/ Restore
    \/ Bail
    \/ CloseErr
    \/ DeferClose
    \/ Tick

SpecPace == Init /\ [][NextPace]_vars

\* ------------------------------------------------------ the alert driver
\* the time (ms) that passes between two calls of the driver
Gaps == {0, 100, 125, 250, 625}

\* One call of the alert driver: some time has passed and a command may
\* have arrived.
AlertTick ==
    /\ ticks < MaxTicks
    /\ \E dt \in Gaps, c \in Cmds :
        /\ c \in {Warble, Strobe} => Len(effects) < MaxEffects
        /\ LET r == XftTick([stage |-> stage, stageStart |-> stageStart, effects |-> effects],
                            t + dt, c)
           IN  /\ t' = t + dt
               /\ cmd' = c
               /\ stage' = r.stage
               /\ stageStart' = r.stageStart
               /\ sinceStage' = r.sinceStage
               /\ strength' = r.strength
               /\ exitFlag' = r.exitFlag
               /\ effects' = r.effects
               /\ effectStrength' = r.effectStrength
               /\ alertSleepFor' = r.sleepFor
               /\ applied' = r.applied
    /\ ticks' = ticks + 1
    /\ UNCHANGED <<gammaVars, now, optVars, loopVars, timeVars, cancelVars, sendVars, errVars, obsVars, device, panic>>

NextAlert ==
    \/ AlertTick

\* The alert driver called with non-decreasing elapsed times and any
\* commands.
SpecAlert == Init /\ [][NextAlert]_vars

\* the captured state of the alert closure
AlertState == [stage |-> stage, stageStart |-> stageStart, effects |-> effects]

\* ------------------------------------------- the alert driver under Animate
\* what the senders send: the first one Exit, the others Strobe and Warble
\* (the example's signal handler sends Exit and Strobe)
CmdOfEvent(ev) ==
    IF ev = NilEvent THEN NoCmd
    ELSE IF ev = 1 THEN ExitCmd
    ELSE IF ev = 2 THEN Strobe
    ELSE Warble

\* the curve the alert driver returns, at the grid points: the baseline
\* blended with the red tint by the stage strength
AlertFn(base, str, eff) ==
    [ch \in Channels |->
        [i \in 1 .. Len(base[ch]) |->
            LET b == base[ch][i]
                oCmp == (eff * 6) \div 10
                rCmp == (2 * EffScale) \div 10 + oCmp
                fx == IF ch = 0
                      THEN (b * (EffScale - rCmp)) \div EffScale + (rCmp * MaxUshort) \div EffScale
                      ELSE (b * (EffScale - oCmp)) \div EffScale
            IN  (str * fx + (EnterExitDuration - str) * b) \div EnterExitDuration]]

\* curFn, sleepFor, exit = o.xft(time.Now().Sub(anchor), baseFn, event)
\* with o.xft = alert.Xft()
CallAlert ==
    /\ panic = NoPanic
    /\ pc = "call"
    /\ \E r \in {XftTick(AlertState, now, CmdOfEvent(event))} :
           /\ curFn' = AlertFn(baseFn, r.strength, r.effectStrength)
           /\ sleepFor' = r.sleepFor
           /\ suggested' = r.sleepFor
           /\ exit' = r.exitFlag
           /\ paced' = (paced /\ r.sleepFor = 0 /\ ~r.exitFlag)
           /\ t' = now
           /\ cmd' = CmdOfEvent(event)
           /\ stage' = r.stage
           /\ stageStart' = r.stageStart
           /\ sinceStage' = r.sinceStage
           /\ strength' = r.strength
           /\ exitFlag' = r.exitFlag
           /\ effects' = r.effects
           /\ effectStrength' = r.effectStrength
           /\ alertSleepFor' = r.sleepFor
           /\ applied' = r.applied
    /\ xftBase' = baseFn
    /\ inflight' = IF event = NilEvent \/ inflight = <<>> THEN inflight
                   ELSE IF Head(inflight) = event THEN Tail(inflight) ELSE inflight
    /\ pc' = "write"
    /\ UNCHANGED <<gammaVars, ticks, now, optVars, sess, err, oldLut, newLut, baseFn, event>>
    /\ UNCHANGED <<timeVars, cancelVars, sendVars, errVars, device, panic>>
    /\ UNCHANGED <<foreignSeen, lastWrite, nRestores, wrote>>

\* a goroutine starts to send its command; one that adds an effect does so
\* while the effect list has room
SendCmdStart(s) ==
    /\ CmdOfEvent(EventOf(s)) # ExitCmd =>
          Len(effects) + Cardinality({z \in Senders : spc[z] = "sending"}) < MaxLiveEffects
    /\ SendStart(s)

\* PassMs milliseconds pass while the loop waits or works on the device
Pass ==
    /\ panic = NoPanic
    /\ pc \in TimedPoints
    /\ ElapseTimes(PassMs, AgeCap)
    /\ now' = Min(now + PassMs, MaxNow)
    /\ UNCHANGED <<stage, stageStart, effects, t, cmd, sinceStage, strength,
                   effectStrength, alertSleepFor, exitFlag, applied, ticks, gammaVars>>
    /\ UNCHANGED <<optVars, loopVars, cancelVars, sendVars, errVars, obsVars, device, panic>>

\* the example's call: Animate(cl, alert.Xft()) with no option, so the
\* defaults stand
InitExample ==
    /\ Init
    /\ exitOnForeignUpdate
    /\ restoreOnExit

\* The loop driven by alert.Xft, goroutines that send commands, the clock
\* and the receiver of the termination channel; the CancelFunc is not used.
NextAlertLive ==
    \/ Setup
    \/ LoopTop
    \/ CallAlert
    \/ WriteGamma
    \/ Reread
    \/ \E s \in Senders : SelectEvent(s)
    \/ SelectTimer
    \/ Restore
    \/ Bail
    \/ CloseErr
    \/ DeferClose
    \/ \E s \in Senders : SendCmdStart(s)
    \/ RecvClosed
    \/ Pass

\* the driver's call returns: the step of the goroutine from the call to
\* the write, which is CallAlert
CallReturns ==
    /\ panic = NoPanic
    /\ pc = "call"
    /\ pc' = "write"

\* the other steps of the animate goroutine outside its select
RunningAlert ==
    \/ Setup
    \/ LoopTop
    \/ WriteGamma
    \/ Reread
    \/ Restore
    \/ Bail
    \/ CloseErr
    \/ DeferClose

\* The goroutine keeps running, it leaves the select once the timer has
\* fired, and time keeps passing: the device write and re-read of every
\* iteration take time.
SpecAlertLive ==
    /\ InitExample
    /\ [][NextAlertLive]_vars
    /\ WF_vars(RunningAlert)
    /\ WF_pc(CallReturns)
    /\ WF_vars(SelectTimer)
    /\ SF_vars(Pass)

\* ------------------------------------------------ the loop's own writes
\* another program reprograms the CRTC, but not between the loop's re-read
\* and its next read at the head of the loop
ForeignUpdateInIteration ==
    /\ pc \in {"call", "write", "reread"} \/ IsZero(oldLut)
    /\ ForeignUpdate

\* The loop with any driver, events and the timer; other programs write the
\* device only outside the window between the re-read and the next read.
NextOwnWrites ==
    \/ Setup
    \/ LoopTop
    \/ CallXft
    \/ WriteGamma
    \/ Reread
    \/ \E s \in Senders : SelectEvent(s)
    \/ SelectTimer
    \/ Restore
    \/ Bail
    \/ CloseErr
    \/ DeferClose
    \/ \E s \in Senders : SendStart(s)
    \/ RecvClosed
    \/ ForeignUpdateInIteration
    \/ TimerFire

SpecOwnWrites == Init /\ [][NextOwnWrites]_vars

\* ------------------------------------------------- the example's goroutine
\* The goroutine that called Animate is in its select: it is not inside a
\* send on the event channel and has not returned.
CallerInSelect ==
    /\ recv = "waiting"
    /\ \A s \in Senders : spc[s] = "idle"

\* "case c := <-sigChan": the caller leaves its select for a blocking
\* "eventChan <- ..."
DemoSignal(s) ==
    /\ CallerInSelect
    /\ SendCmdStart(s)

\* bail: "o.err <- err" is received by the caller's select only
DemoBail ==
    /\ err # NoErr => CallerInSelect
    /\ Bail

\* "case err, ok := <-errChan" on the closed channel
DemoRecvClosed ==
    /\ CallerInSelect
    /\ RecvClosed

\* The loop driven by alert.Xft and one caller goroutine written like the
\* example: a select on the termination channel and on signals, and a
\* blocking send on the event channel for each signal.
NextDemo ==
    \/ Setup
    \/ LoopTop
    \/ CallAlert
    \/ WriteGamma
    \/ Reread
    \/ \E s \in Senders : SelectEvent(s)
    \/ SelectTimer
    \/ Restore
    \/ DemoBail
    \/ CloseErr
    \/ DeferClose
    \/ \E s \in Senders : DemoSignal(s)
    \/ DemoRecvClosed
    \/ Pass

SpecDemo == InitExample /\ [][NextDemo]_vars

\* ------------------------------------------------- package gamma: methods
\* a.Equals(b) for two tables
CallEquals ==
    /\ gop = NoCall
    /\ \E a \in Tables, b \in Tables :
          gop' = [NoCall EXCEPT !.op = "Equals", !.a = a, !.b = b, !.eq = Equals(a, b)]
    /\ UNCHANGED <<client, closer, alertVars>>
    /\ UNCHANGED <<optVars, loopVars, timeVars, cancelVars, sendVars, errVars, obsVars, device, panic>>

\* a.XferFn()(ch, k / InSteps) for a table, a channel and an input in [0, 1]
CallXferFn ==
    /\ gop = NoCall
    /\ \E a \in Tables, ch \in Channels, k \in 0 .. InSteps :
          gop' = [NoCall EXCEPT !.op = "XferFn", !.a = a, !.ch = ch, !.in = k,
                                !.out = XferAt(a, ch, k)]
    /\ UNCHANGED <<client, closer, alertVars>>
    /\ UNCHANGED <<optVars, loopVars, timeVars, cancelVars, sendVars, errVars, obsVars, device, panic>>

NextTables ==
    \/ CallEquals
    \/ CallXferFn

\* One call of a LookupTable method on tables GetLookupTable returns.
SpecTables == InitExample /\ [][NextTables]_vars

\* ------------------------------------------------------------- Client.Close
\* What the unlocked read of cl.open can give goroutine c: the current
\* value, or, while nothing orders the write of another goroutine before
\* this read, still the old one.
OpenReads(c) ==
    IF closer[c].synced THEN {client.open} ELSE {client.open, TRUE}

\* "if cl == nil || !cl.open { return }", read without the mutex
CloseCheck(c) ==
    /\ closer[c].pc = "idle"
    /\ closer[c].calls < MaxCloseCalls
    /\ \E open \in OpenReads(c) :
          closer' = [closer EXCEPT ![c].pc = IF open THEN "lock" ELSE "idle",
                                   ![c].calls = IF open THEN @ ELSE @ + 1]
    /\ UNCHANGED <<client, gop, alertVars>>
    /\ UNCHANGED <<optVars, loopVars, timeVars, cancelVars, sendVars, errVars, obsVars, device, panic>>

\* cl.mutex.Lock()
CloseLock(c) ==
    /\ closer[c].pc = "lock"
    /\ client.mutex = 0
    /\ client' = [client EXCEPT !.mutex = c]
    /\ closer' = [closer EXCEPT ![c].pc = "locked", ![c].synced = @ \/ ~client.open]
    /\ UNCHANGED <<gop, alertVars>>
    /\ UNCHANGED <<optVars, loopVars, timeVars, cancelVars, sendVars, errVars, obsVars, device, panic>>

\* C.XCloseDisplay(cl.dpy); cl.open = false
CloseDisplay(c) ==
    /\ closer[c].pc = "locked"
    /\ client' = [client EXCEPT !.closes = @ + 1, !.open = FALSE]
    /\ closer' = [closer EXCEPT ![c].pc = "unlock", ![c].synced = TRUE]
    /\ UNCHANGED <<gop, alertVars>>
    /\ UNCHANGED <<optVars, loopVars, timeVars, cancelVars, sendVars, errVars, obsVars, device, panic>>

\* the deferred cl.mutex.Unlock(), and the return
CloseUnlock(c) ==
    /\ closer[c].pc = "unlock"
    /\ client' = [client EXCEPT !.mutex = 0]
    /\ closer' = [closer EXCEPT ![c].pc = "idle", ![c].calls = @ + 1]
    /\ UNCHANGED <<gop, alertVars>>
    /\ UNCHANGED <<optVars, loopVars, timeVars, cancelVars, sendVars, errVars, obsVars, device, panic>>

NextClient ==
    \/ \E c \in Closers : CloseCheck(c)
    \/ \E c \in Closers : CloseLock(c)
    \/ \E c \in Closers : CloseDisplay(c)
    \/ \E c \in Closers : CloseUnlock(c)

\* Goroutines that call Close on one Client.
SpecClient == InitExample /\ [][NextClient]_vars

\* ------------------------------------------------------------------ claims
\* the loop has left the for loop (break or bail)
AfterLoop == {"restore", "bail", "close", "defer", "done"}

\* a step that calls the driver function
XftCallStep == pc = "call" /\ pc' = "write"
\* a step that writes driver output to the device
XftWriteStep == pc = "write" /\ pc' = "reread"
\* a step that writes the baseline back to the device
RestoreWriteStep == pc = "restore" /\ nRestores' # nRestores

\* C1: whatever ends a run, once the termination channel is closed exactly
\* one value has been delivered on it, nil for a clean exit and the error
\* otherwise, and the channel is closed once.
C1_OneValueThenClose ==
    /\ errCloses <= 1
    /\ Len(errSent) <= 1
    /\ errCloses > 0 => errSent = <<err>>

\* C2: two goroutines invoking the CancelFunc concurrently close the cancel
\* channel exactly once and neither invocation panics.
C2_ConcurrentCancelSafe ==
    /\ cancelCloses <= 1
    /\ panic # ClosePanic

\* C3: invocations of the CancelFunc made one after the other never panic,
\* close the cancel channel once and the termination channel at most once,
\* and an invocation made after one has returned returns at once and
\* changes nothing.
C3_SequentialCancelIdempotent ==
    /\ [](cancelCloses <= 1 /\ panic # ClosePanic /\ errCloses <= 1)
    /\ [](cancelCalls > 0 => called /\ cancelCloses = 1)
    /\ [][(cancelCalls > 0 /\ CancelEnter(1)) =>
            UNCHANGED <<cpc, called, cancelCloses, panic, loopVars, errVars, device>>]_vars

\* C3 witness: two invocations have returned, the loop has ended, one close.
C3_Witness ==
    /\ cancelCalls = 2
    /\ cancelCloses = 1
    /\ pc = "done"
    /\ errCloses = 1

\* what the driver call at hand must be given: the one accepted event that
\* has not reached the driver yet, or nil
EventDue == IF inflight = <<>> THEN NilEvent ELSE Head(inflight)

\* C4 as stated: every accepted event reaches the driver in one call, in
\* order and one per iteration, every other call gets nil, and no accepted
\* event is left undelivered when the loop has ended.
C4_NoAcceptedEventDropped ==
    /\ Len(inflight) <= 1
    /\ pc = "call" => event = EventDue
    /\ pc \in AfterLoop => inflight = <<>>

\* C4 amended: every accepted event is handed to the driver call of the
\* next iteration, in order and one per iteration, and every other call
\* gets nil; an event is left undelivered only when the iteration after its
\* receipt ends at the head of the loop: the driver had returned exit, or
\* the snapshot read failed, or a foreign update was found.
C4_EventsReachNextCall ==
    /\ Len(inflight) <= 1
    /\ pc = "call" => event = EventDue
    /\ (pc \in AfterLoop /\ inflight # <<>>) =>
          /\ event = Head(inflight)
          /\ exit \/ err \in {ReadFailure, ForeignCrtcUpdate}

\* C4 witness: the driver has just been given an accepted event while the
\* other sender is blocked in its send.
C4_Witness ==
    /\ pc = "write"
    /\ event # NilEvent
    /\ inflight = <<>>
    /\ \E s \in Senders : spc[s] = "sending" /\ EventOf(s) # event

\* C5: with the driver always asking for sleepFor = 0 and never exiting,
\* and no events or cancellation, a write of driver output comes at least
\* UpdateInterval after the one before it.
C5_WritesIntervalApart ==
    [][(paced /\ wrote /\ XftWriteStep) => writeAge >= UpdateInterval]_vars

\* C6: under the exit policy a snapshot that differs from the retained one
\* ends the loop with ForeignCrtcUpdate, and from then on the driver is not
\* called and the device is not written, restore-on-exit or not.
C6_ForeignUpdateExits ==
    /\ []((foreignSeen /\ exitOnForeignUpdate) =>
            /\ err = ForeignCrtcUpdate
            /\ pc \in AfterLoop
            /\ errCloses > 0 => errSent = <<ForeignCrtcUpdate>>)
    /\ [][(foreignSeen /\ exitOnForeignUpdate) =>
            ~XftCallStep /\ ~XftWriteStep /\ ~RestoreWriteStep /\ lastWrite' = lastWrite]_vars

\* C6 witness: a foreign update ended a run that had restore-on-exit on.
C6_Witness ==
    /\ foreignSeen
    /\ exitOnForeignUpdate
    /\ optRestoreOnExit
    /\ pc = "done"
    /\ errSent = <<ForeignCrtcUpdate>>

\* C7: under ExitOnForeignUpdate(false) a differing snapshot never ends the
\* loop, and the driver gets the curve of the new snapshot from that
\* iteration on; the baseline is set from the first snapshot and changes
\* only at such a rebase.
C7_RebaseOnForeignUpdate ==
    /\ [](~exitOnForeignUpdate => err # ForeignCrtcUpdate)
    /\ [][XftCallStep =>
            xftBase' = IF IsZero(oldLut) \/ ~Equals(newLut, oldLut)
                       THEN LutXferFn(newLut) ELSE xftBase]_vars
    /\ [][baseFn' # baseFn =>
            /\ pc = "top" /\ pc' = "call"
            /\ IsZero(oldLut) \/ (~exitOnForeignUpdate /\ ~Equals(newLut', oldLut))]_vars

\* C7 witness: the driver was given a baseline rebased on a foreign table.
C7_Witness ==
    /\ ~exitOnForeignUpdate
    /\ foreignSeen
    /\ pc = "write"
    /\ xftBase = LutXferFn(newLut)
    /\ xftBase # IdentityFn

\* C8: the baseline is written back only when restore-on-exit is on and no
\* error occurred; once an error is detected the device is not written.
C8_NoWriteAfterError ==
    /\ [](lastWrite.kind = "restore" => optRestoreOnExit /\ err = NoErr)
    /\ [][err # NoErr => ~XftWriteStep /\ ~RestoreWriteStep]_vars

\* C9: when the loop ends without error, with restore-on-exit the last write
\* is the baseline, written once after the last driver output; without it
\* the last write is the curve of the last driver call.
C9_LastWriteOnCleanExit ==
    (pc \in {"bail", "close", "defer", "done"} /\ err = NoErr) =>
        IF optRestoreOnExit
        THEN lastWrite = [kind |-> "restore", fn |-> baseFn] /\ nRestores = 1
        ELSE lastWrite = [kind |-> "xft", fn |-> curFn] /\ nRestores = 0

\* C9 witness: a clean exit restored a baseline that differs from the last
\* driver output.
C9_Witness ==
    /\ pc = "done"
    /\ err = NoErr
    /\ optRestoreOnExit
    /\ lastWrite.kind = "restore"
    /\ curFn # baseFn

\* C11: once a driver call has returned exit = true its curve is still
\* written to the device, and the driver is never called again, whatever
\* events arrive or timers fire afterwards.
C11_ExitWritesThenStops ==
    /\ [][exit => ~XftCallStep]_vars
    /\ [][(exit /\ pc = "write" /\ pc' # pc) =>
            XftWriteStep /\ device' = SetGamma(curFn)]_vars
    /\ []((exit /\ pc # "write") =>
            \/ lastWrite = [kind |-> "xft", fn |-> curFn]
            \/ lastWrite.kind = "restore")

\* C11 witness: after the driver returned exit an event was accepted, and
\* the loop has ended.
C11_Witness ==
    /\ exit
    /\ event # NilEvent
    /\ pc = "done"
    /\ err = NoErr

\* C12: when opening the session fails the loop ends with the setup error
\* as its one outcome; the driver is not called, no snapshot is read, the
\* device is not written and the open is not tried again.
C12_SetupFailureEndsRun ==
    /\ [](err = SetupFailure =>
            /\ sess = "none"
            /\ pc \in {"bail", "close", "done"}
            /\ lastWrite.kind = "none" /\ ~wrote /\ nRestores = 0
            /\ newLut = ZeroLut /\ oldLut = ZeroLut
            /\ curFn = NilFn /\ baseFn = NilFn
            /\ device = SetGamma(IdentityFn)
            /\ panic = NoPanic
            /\ errCloses <= 1
            /\ errCloses = 1 => errSent = <<SetupFailure>>)
    /\ [][pc # "setup" => pc' # "setup"]_vars

\* C12 witness: a run whose session could not be opened has ended.
C12_Witness ==
    /\ err = SetupFailure
    /\ pc = "done"
    /\ errSent = <<SetupFailure>>
    /\ errCloses = 1

\* a step that arms the timer for the wait
ArmStep == pc = "reread" /\ pc' = "select"

\* C13: the wait armed on the timer is the largest of the suggested sleep,
\* the update interval less the time since the last update, and 0: never
\* negative, never more than the larger of the suggested sleep and the
\* update interval, also in the first iteration.
C13_WaitIsClampedMax ==
    [][ArmStep =>
          LET w == timer'.left
              extra == UpdateInterval - lastUpdateAge
          IN  /\ timer'.armed
              /\ w >= sleepFor /\ w >= extra /\ w >= 0
              /\ w \in {sleepFor, extra, 0}
              /\ w <= Max(sleepFor, UpdateInterval)]_vars

\* C13 witness: the driver suggested a negative sleep and the wait armed
\* is 0.
C13_Witness ==
    /\ pc = "select"
    /\ wrote
    /\ lastWrite.kind = "xft"
    /\ suggested < 0
    /\ sleepFor = 0
    /\ timer = TimerArmed(0)

\* C14: a send on the EventChan completes only while the loop is at its
\* wait, one send per iteration; a sender that arrives while the loop reads,
\* calls the driver or writes stays blocked until the loop is at the wait.
C14_SendCompletesAtWait ==
    /\ [][(\E s \in Senders : spc[s] = "sending" /\ spc'[s] = "idle") =>
            /\ pc = "select" /\ pc' = "top"
            /\ Cardinality({s \in Senders : spc'[s] # spc[s]}) = 1
            /\ \E s \in Senders : event' = EventOf(s) /\ spc[s] = "sending" /\ spc'[s] = "idle"]_vars
    /\ [][(pc' = "select" /\ pc # "select") => pc = "reread"]_vars
    /\ [][(pc = "top" /\ pc' # "top") => pc' \in {"call", "restore"}]_vars
    /\ [](Len(inflight) <= 1)

\* C14 witness: both senders are blocked while the loop, which has accepted
\* an event before, re-reads the device.
C14_Witness ==
    /\ pc = "reread"
    /\ event # NilEvent
    /\ \A s \in Senders : spc[s] = "sending"

\* --------------------------------------------------------------- liveness
\* The loop, a caller that cancels, goroutines that keep sending events,
\* and the receiver of the termination channel.
NextLive ==
    \/ Setup
    \/ LoopTop
    \/ CallXft
    \/ WriteGamma
    \/ Reread
    \/ SelectCancel
    \/ \E s \in Senders : SelectEvent(s)
    \/ SelectTimer
    \/ Restore
    \/ Bail
    \/ CloseErr
    \/ DeferClose
    \/ \E s \in Senders : SendStart(s)
    \/ CancelEnter(1)
    \/ CancelClose(1)
    \/ CancelMark(1)
    \/ RecvClosed
    \/ TimerFire

\* the steps of the animate goroutine outside its select: device
\* operations and the driver function return
Running ==
    \/ Setup
    \/ LoopTop
    \/ CallXft
    \/ WriteGamma
    \/ Reread
    \/ Restore
    \/ Bail
    \/ CloseErr
    \/ DeferClose

\* The goroutine keeps running; Go's select picks among its ready cases by
\* uniform pseudo-random choice, so a case that is ready again and again is
\* taken in the end.
SpecLive ==
    /\ Init
    /\ [][NextLive]_vars
    /\ WF_vars(Running)
    /\ SF_vars(SelectCancel)

\* C10: once the CancelFunc has been invoked the loop ends and closes the
\* termination channel, also while events keep being sent, and without a
\* device error its outcome is nil.
C10_CancelEndsLoop ==
    /\ (cancelCloses > 0) ~> (errCloses > 0)
    /\ []((errCloses > 0 /\ err = NoErr) => errSent = <<>>)

\* What holds of C10: the cancelled loop ends unless the process panics
\* first.
CancelEndsLoopUnlessPanic ==
    (cancelCloses > 0) ~> (errCloses > 0 \/ panic # NoPanic)

\* ------------------------------------------------- claims: the alert driver
\* a step that is one call of the alert driver
Ticked == ticks' = ticks + 1

\* the stage moves the alert driver can make
StageMoves == {<<"enter", "static">>, <<"static", "exit">>, <<"enter", "exit">>}

\* C16: the alert driver starts in entering; its stage only moves
\* entering->static, static->exiting or entering->exiting, never leaves
\* exiting, moves to exiting only on a tick carrying Exit, and exit = true is
\* returned only in exiting.
C16_StageOnlyMovesForward ==
    /\ [](ticks = 0 => stage = "enter")
    /\ [][stage' # stage => <<stage, stage'>> \in StageMoves]_vars
    /\ [][stage = "exit" => stage' = "exit"]_vars
    /\ [][(stage # "exit" /\ stage' = "exit") => cmd' = ExitCmd]_vars
    /\ [](exitFlag => stage = "exit")

\* C16 witness: the driver went entering -> static -> exiting and has
\* returned exit.
C16_Witness ==
    /\ stage = "exit"
    /\ exitFlag
    /\ ticks = 3
    /\ stageStart >= EnterExitDuration
    /\ cmd = NoCmd

\* C17: Exit on a tick in entering at stage-elapsed e moves to exiting with
\* stageStart = now - (250ms - e); that tick's strength is e/250ms, and the
\* strength falls to 0 after e more milliseconds, not after 250.
C17_ExitInEnteringKeepsStrength ==
    [][(Ticked /\ stage = "enter" /\ cmd' = ExitCmd) =>
          LET e == t' - stageStart
          IN  /\ stage' = "exit"
              /\ stageStart' = t' - (EnterExitDuration - e)
              /\ strength' = e
              /\ ~exitFlag'
              /\ \A d \in 0 .. e :
                    XftTick(AlertState', t' + d, NoCmd).strength = e - d]_vars

\* C17 witness: Exit arrived 100ms into entering; the strength is 0.4.
C17_Witness ==
    /\ stage = "exit"
    /\ cmd = ExitCmd
    /\ t = 100
    /\ strength * 10 = 4 * EnterExitDuration
    /\ stageStart = t - 150

\* C18 as stated: in exiting every tick whose strength is 0, the one at
\* exactly 250ms included, returns exit = true, and no tick returns exit =
\* true with a strength above 0.
C18_ExitAtZeroStrength ==
    /\ (stage = "exit" /\ ticks > 0 /\ strength = 0) => exitFlag
    /\ exitFlag => strength = 0

\* C18 amended: in exiting a tick returns exit = true exactly when its
\* stage-elapsed is more than 250ms, with the strength clamped to 0; at
\* exactly 250ms the strength is 0 and exit is false; no tick returns
\* exit = true with a strength above 0.
C18_ExitPastZeroStrength ==
    /\ (stage = "exit" /\ ticks > 0) => (exitFlag <=> sinceStage > EnterExitDuration)
    /\ (stage = "exit" /\ ticks > 0 /\ sinceStage = EnterExitDuration) => strength = 0
    /\ exitFlag => strength = 0 /\ stage = "exit"

\* C18 witness: a tick in exiting at exactly 250ms.
C18_Witness ==
    /\ stage = "exit"
    /\ sinceStage = EnterExitDuration
    /\ strength = 0
    /\ ~exitFlag

\* the elements of a sequence
Range(seq) == {seq[i] : i \in 1 .. Len(seq)}

\* C19: a warble applied at 625ms after its start or later is done, passes
\* its input through, and is removed from the list on that tick.
C19_WarbleDoneAtDuration ==
    \A e \in Range(applied) :
        (e.apply = "warble" /\ t - e.start >= WarbleDuration) =>
            /\ e \notin Range(effects)
            /\ \A in \in {0, effectStrength} :
                  WarbleApply(t - e.start, in) = [out |-> in, done |-> TRUE]

\* C20 as stated: the suggested sleep is 0 exactly when an effect remains
\* after the tick or the stage as left by the tick is entering or exiting,
\* and the idle interval otherwise.
C20_SleepByStageLeft ==
    ticks > 0 =>
        alertSleepFor = IF effects # <<>> \/ stage \in {"enter", "exit"} THEN 0 ELSE IdleSleep

\* C20 amended: the suggested sleep is 0 exactly when an effect remains
\* after the tick, or the stage as left by the tick is entering or exiting,
\* or the tick is the one that turns entering into static; otherwise it is
\* the idle interval.
C20_SleepByStageTicked ==
    [][Ticked =>
          alertSleepFor' = IF \/ effects' # <<>>
                              \/ stage' \in {"enter", "exit"}
                              \/ (stage = "enter" /\ stage' = "static")
                           THEN 0 ELSE IdleSleep]_vars

\* C20 witness: the last finished effect was removed on a tick in static,
\* which suggests the idle interval.
C20_Witness ==
    /\ stage = "static"
    /\ stageStart < t
    /\ applied # <<>>
    /\ effects = <<>>
    /\ alertSleepFor = IdleSleep

\* C21: a tick in entering without Exit returns stage-elapsed / 250ms as
\* its strength and stays in entering while stage-elapsed is below 250ms;
\* the first tick at 250ms or more returns strength 1 and leaves the stage
\* static with the stage timer at that tick's time; every tick in static
\* returns strength 1.
C21_EnteringRampsToStatic ==
    /\ [][(Ticked /\ stage = "enter" /\ cmd' # ExitCmd) =>
            LET e == t' - stageStart
            IN  IF e < EnterExitDuration
                THEN /\ strength' = e
                     /\ stage' = "enter"
                     /\ stageStart' = stageStart
                ELSE /\ strength' = EnterExitDuration
                     /\ stage' = "static"
                     /\ stageStart' = t']_vars
    /\ [][(Ticked /\ stage = "static") => strength' = EnterExitDuration]_vars
    /\ [][(Ticked /\ stage = "static" /\ cmd' # ExitCmd) =>
            stage' = "static" /\ stageStart' = stageStart]_vars

\* C21 witness: a tick 125ms into entering, with strength 0.5.
C21_Witness ==
    /\ stage = "enter"
    /\ ticks > 0
    /\ t - stageStart = 125
    /\ strength * 2 = EnterExitDuration

\* C21 witness of the other half: the tick at exactly 250ms made the stage
\* static.
C21_StaticAtDuration ==
    /\ stage = "static"
    /\ stageStart = EnterExitDuration
    /\ t = stageStart
    /\ strength = EnterExitDuration

\* C22: Exit on a tick in static moves to exiting with the stage timer at
\* that tick's time; the tick returns strength 1, sleep 0 and exit = false,
\* and no tick up to 250ms later returns exit = true.
C22_ExitInStaticRestartsTimer ==
    /\ [][(Ticked /\ stage = "static" /\ cmd' = ExitCmd) =>
            /\ stage' = "exit"
            /\ stageStart' = t'
            /\ sinceStage' = 0
            /\ strength' = EnterExitDuration
            /\ alertSleepFor' = 0
            /\ ~exitFlag'
            /\ \A d \in Gaps, c \in Cmds :
                  XftTick(AlertState', t' + d, c).exitFlag <=> d > EnterExitDuration]_vars
    /\ [][(Ticked /\ exitFlag') => t' - stageStart' > EnterExitDuration]_vars

\* C22 witness: Exit arrived in static and a later tick, more than 250ms
\* after it, returned exit = true.
C22_Witness ==
    /\ stage = "exit"
    /\ exitFlag
    /\ stageStart >= EnterExitDuration
    /\ t - stageStart > EnterExitDuration

\* how often x occurs in a sequence
Count(seq, x) == Cardinality({i \in 1 .. Len(seq) : seq[i] = x})

\* the effect a Warble or Strobe command appends at elapsed time "at"
NewEffect(c, at) == [start |-> at, apply |-> IF c = Warble THEN "warble" ELSE "strobe"]

\* C23: a tick carrying Warble or Strobe, in any stage, appends exactly one
\* effect of that kind starting at the tick's time, and its stage, stage
\* timer, stage strength and exit flag are those of a tick at the same time
\* without a command.
C23_EffectCmdLeavesStage ==
    [][(Ticked /\ cmd' \in {Warble, Strobe}) =>
          LET n == XftTick(AlertState, t', NoCmd)
              e == NewEffect(cmd', t')
          IN  /\ stage' = n.stage
              /\ stageStart' = n.stageStart
              /\ sinceStage' = n.sinceStage
              /\ strength' = n.strength
              /\ exitFlag' = n.exitFlag
              /\ \A x \in Range(effects') \cup Range(n.effects) \cup {e} :
                    Count(effects', x) = Count(n.effects, x) + (IF x = e THEN 1 ELSE 0)
              /\ \A x \in Range(applied') \cup Range(n.applied) \cup {e} :
                    Count(applied', x) = Count(n.applied, x) + (IF x = e THEN 1 ELSE 0)]_vars

\* C23 witness: a Strobe arrived on a tick in exiting, after the fade-out
\* had begun.
C23_Witness ==
    /\ stage = "exit"
    /\ cmd = Strobe
    /\ t > stageStart
    /\ effects # <<>>
    /\ effects[Len(effects)] = [start |-> t, apply |-> "strobe"]

\* the strength after the effects seq[i], seq[i+1], ... applied in turn at
\* elapsed time "at", starting from in
RECURSIVE Chain(_, _, _, _)
Chain(seq, i, at, in) ==
    IF i > Len(seq) THEN in
    ELSE Chain(seq, i + 1, at, EffectApply(seq[i], at - seq[i].start, in).out)

\* the list at the start of the tick's loop over the effects
ListAtTick(effs, c, at) ==
    IF c \in {Warble, Strobe} THEN Append(effs, NewEffect(c, at)) ELSE effs

\* C24: on every tick each effect of the list is applied exactly once,
\* from strength 0 and chaining the outputs; the effects whose apply
\* returned done are removed on that tick, the others stay, and a removed
\* effect is not applied on any later tick: the list only ever holds effects
\* it held before or the one appended on the tick, none of them done.
C24_EachEffectAppliedOnce ==
    /\ [][Ticked =>
            LET l == ListAtTick(effects, cmd', t')
            IN  /\ Len(applied') = Len(l)
                /\ \A x \in Range(l) \cup Range(applied') : Count(applied', x) = Count(l, x)
                /\ effectStrength' = Chain(applied', 1, t', 0)
                /\ \A x \in Range(l) \cup Range(effects') :
                      Count(effects', x) =
                          IF EffectApply(x, t' - x.start, 0).done THEN 0 ELSE Count(l, x)]_vars
    /\ [][\A x \in Range(applied) :
            EffectApply(x, t - x.start, 0).done => x \notin Range(applied')]_vars
    /\ [][\A x \in Range(effects') : x \in Range(effects) \/ x.start = t']_vars
    /\ [](\A x \in Range(effects) : x.start <= t /\ ~EffectApply(x, t - x.start, 0).done)

\* C24 witness: of two effects in the list the first was done and removed
\* on this tick, and the second, swapped into its place, was applied and
\* stays.
C24_Witness ==
    /\ Len(applied) = 2
    /\ Len(effects) = 1
    /\ applied[2] = effects[1]
    /\ EffectApply(applied[1], t - applied[1].start, 0).done

\* ----------------------------------------- claims: alert.Xft under Animate
\* when the fade-out that an Exit at the next tick starts, or the one
\* under way, is over
FadeEnd ==
    IF stage = "exit" THEN stageStart + EnterExitDuration
    ELSE IF stage = "enter" THEN now + (now - stageStart)
    ELSE now + EnterExitDuration

\* an Exit command has just been accepted, while the clock of the model
\* still covers the fade-out
ExitAccepted ==
    /\ pc = "top"
    /\ CmdOfEvent(event) = ExitCmd
    /\ FadeEnd < MaxNow

\* C15: once the loop has accepted an Exit event the animation ends by
\* itself, whatever the stage was and whatever events follow: the termination
\* channel is closed, and a run that ends without error does so because the
\* driver returned exit = true, with nothing sent and no cancellation.
C15_ExitEventEndsAnimation ==
    /\ ExitAccepted ~> (errCloses > 0)
    /\ []((errCloses > 0 /\ err = NoErr) =>
            /\ exit /\ exitFlag /\ stage = "exit"
            /\ errSent = <<>>
            /\ cancelCloses = 0)

\* C15 witness: Exit arrived in entering, a Strobe followed, and the run
\* has ended without error.
C15_Witness ==
    /\ pc = "done"
    /\ err = NoErr
    /\ exitFlag
    /\ stageStart < EnterExitDuration
    /\ effects # <<>>

\* ------------------------------------------------ claims: LookupTable, Client
\* the same number of controllers per channel and of samples per controller
SameShape(a, b) ==
    \A ch \in Channels :
        /\ Len(a[ch]) = Len(b[ch])
        /\ \A crtc \in 1 .. Len(a[ch]) : Len(a[ch][crtc]) = Len(b[ch][crtc])

\* the places where two tables of the same shape hold different samples
Differences(a, b) ==
    {p \in Channels \X (1 .. 1) \X (1 .. LutSize) :
        /\ p[2] <= Len(a[p[1]])
        /\ p[3] <= Len(a[p[1]][p[2]])
        /\ a[p[1]][p[2]][p[3]] # b[p[1]][p[2]][p[3]]}

\* C25: Equals is true exactly when the two tables have the same number of
\* controllers per channel, of samples per controller, and every sample
\* equal; it is reflexive and symmetric, and two tables that differ in one
\* sample of one channel and controller are not equal.
C25_EqualsIffSame ==
    gop.op = "Equals" =>
        /\ gop.eq <=> (SameShape(gop.a, gop.b) /\ Differences(gop.a, gop.b) = {})
        /\ gop.eq <=> (gop.a = gop.b)
        /\ Equals(gop.a, gop.a)
        /\ Equals(gop.b, gop.b)
        /\ Equals(gop.b, gop.a) = gop.eq
        /\ (SameShape(gop.a, gop.b) /\ Cardinality(Differences(gop.a, gop.b)) = 1) => ~gop.eq

\* C25 witness: two tables that differ only in the last sample of the blue
\* channel were compared and found different.
C25_Witness ==
    /\ gop.op = "Equals"
    /\ SameShape(gop.a, gop.b)
    /\ Differences(gop.a, gop.b) = {<<2, 1, LutSize>>}
    /\ ~gop.eq

\* C26: for a table with samples the transfer function returns a value for
\* every channel and every input in [0, 1], 1.0 included: sample i / 65535
\* at an input that falls on sample i, and between two samples their linear
\* interpolation.
C26_XferFnInterpolates ==
    (gop.op = "XferFn" /\ ~IsZero(gop.a)) =>
        LET lut == gop.a[gop.ch][1]
            prod == gop.in * Len(lut)
            base == prod \div InSteps
            frac == prod % InSteps
        IN  /\ gop.out.kind = "value"
            /\ (frac = 0 /\ base + 1 <= Len(lut)) => gop.out.val = lut[base + 1] * InSteps
            /\ base + 2 <= Len(lut) =>
                  gop.out.val = lut[base + 1] * (InSteps - frac) + lut[base + 2] * frac

\* What the function does instead: with one controller per channel it
\* never interpolates but returns the sample at or below the input, and at
\* input 1.0 it indexes past the end of the table.
XferFnStepsUnlessOne ==
    (gop.op = "XferFn" /\ ~IsZero(gop.a)) =>
        LET lut == gop.a[gop.ch][1]
            base == (gop.in * Len(lut)) \div InSteps
        IN  IF gop.in = InSteps
            THEN gop.out.kind = "panic"
            ELSE gop.out = [kind |-> "value", val |-> lut[base + 1] * InSteps]

\* C27: whatever the interleaving of the Close calls on one Client, the
\* display connection is closed exactly once: never twice, and once as soon
\* as a call has returned.
C27_CloseClosesOnce ==
    /\ client.closes <= 1
    /\ (\E c \in Closers : closer[c].calls > 0) => client.closes = 1

\* --------------------------------------------- claims: the loop's neighbours
\* C28: while no other program changes the device between the loop's
\* re-read and its next read, the loop never detects a foreign update: it
\* never ends with ForeignCrtcUpdate, and it sets its baseline only on the
\* first iteration, whatever curves the driver returns.
C28_OwnWritesAreNotForeign ==
    /\ [](~foreignSeen /\ err # ForeignCrtcUpdate)
    /\ [][baseFn' # baseFn => (IsZero(oldLut) /\ baseFn = NilFn)]_vars

\* C28 witness: the loop wrote a curve that differs from its baseline,
\* another program then changed the device before the re-read, and the next
\* iteration's comparison found nothing foreign.
C28_Witness ==
    /\ pc = "call"
    /\ wrote
    /\ lastWrite.fn # baseFn
    /\ newLut # SetGamma(lastWrite.fn)
    /\ Equals(newLut, oldLut)
    /\ ~foreignSeen

\* the loop is blocked in "o.err <- err", or animate has closed the
\* termination channel and is returning or has returned
LoopStuckOrGone ==
    \/ pc = "bail" /\ err # NoErr
    \/ pc \in {"close", "defer", "done"} /\ errCloses > 0

\* C29: the caller is never blocked in a send on the event channel while
\* the animation goroutine is blocked delivering its error or has ended.
C29_CallerNeverStuck ==
    ~(LoopStuckOrGone /\ \E s \in Senders : spc[s] = "sending")

\* a CancelFunc invocation has returned and the loop has left its select
\* through the cancel branch
Cancelled ==
    /\ cancelCalls > 0
    /\ pc \in {"restore", "bail", "close", "defer", "done"}

\* C30: once the CancelFunc has returned the loop leaves the first select
\* it reaches through the cancel branch, also when a sender or the expired
\* timer is ready; after that it accepts no event, does not call the driver
\* and writes only the restore.
C30_CancelWinsTheWait ==
    /\ [][(pc = "select" /\ cancelCalls > 0 /\ pc' # pc) => pc' = "restore"]_vars
    /\ [][Cancelled =>
            /\ event' = event
            /\ spc' = spc \/ \E s \in Senders : spc[s] = "idle" /\ spc'[s] = "sending"
            /\ pc' \notin {"top", "call", "write", "reread", "select"}
            /\ device' # device => (lastWrite'.kind = "restore" \/ pc' = pc)]_vars

\* the table the loop's last write put on the device
OwnTable == SetGamma(lastWrite.fn)

\* the head of an iteration after a driver's write: the snapshot is read
\* and compared with the retained one
TopCompareStep ==
    /\ pc = "top"
    /\ pc' \in {"call", "restore"}
    /\ ~exit
    /\ err' # ReadFailure
    /\ lastWrite.kind = "xft"

\* C31: when the receiver sees the termination channel closed the
\* animation goroutine has returned and its session is closed (or was never
\* opened), so nothing of it uses the Client any more.
C31_ClosedMeansDone ==
    recv = "closed" => (pc = "done" /\ sess # "open")

\* C32: a change another program made to the device after the loop's last
\* write, before the re-read or after it, is detected at the head of the
\* next iteration: the loop ends with ForeignCrtcUpdate under the exit
\* policy and rebases on the changed tables under the rebase policy.
C32_ForeignChangeDetected ==
    [][(TopCompareStep /\ device # OwnTable) =>
          IF exitOnForeignUpdate
          THEN err' = ForeignCrtcUpdate /\ pc' = "restore"
          ELSE baseFn' = LutXferFn(device) /\ pc' = "call"]_vars

\* C33: the stage strength of every tick is within [0, 1].
C33_StrengthInRange ==
    strength >= 0 /\ strength <= EnterExitDuration

\* C34: Exit on a tick in exiting leaves the stage and its timer as they
\* are, and the tick returns what a tick at the same time without a command
\* returns.
C34_ExitInExitingChangesNothing ==
    [][(Ticked /\ stage = "exit" /\ cmd' = ExitCmd) =>
          LET n == XftTick(AlertState, t', NoCmd)
          IN  /\ stage' = "exit"
              /\ stageStart' = stageStart
              /\ sinceStage' = t' - stageStart
              /\ strength' = n.strength
              /\ exitFlag' = n.exitFlag
              /\ effects' = n.effects
              /\ effectStrength' = n.effectStrength
              /\ alertSleepFor' = n.sleepFor]_vars

\* C34 witness: a second Exit arrived while the fade-out begun in static
\* was under way; the strength is below 1 and above 0.
C34_Witness ==
    /\ stage = "exit"
    /\ cmd = ExitCmd
    /\ stageStart >= EnterExitDuration
    /\ t > stageStart
    /\ strength > 0
    /\ strength < EnterExitDuration
====
